---- MODULE Spec2Model ----
(***************************************************************************)
(* Media-monitor pipeline: main.generate -> scraper.scrape_articles ->     *)
(* analyzer.analyze_articles -> report_generator.generate_report.          *)
(*                                                                         *)
(* Python Optional[T] values are sequences of length <= 1: <<>> is None    *)
(* and <<v>> is the value v.  A str that is only split, stripped and       *)
(* compared (a URL line) is a sequence of characters.  An article body is  *)
(* its length in characters; an HTML page is a sequence of text fragments  *)
(* (a fragment is one of the phrases the scraper looks for, in some        *)
(* casing, or other text).  The source/date fields of the records are      *)
(* copied through unchanged by every stage and are left out.               *)
(***************************************************************************)
EXTENDS Integers, Sequences, FiniteSets, TLC

\* ---------------------------------------------------------------- bounds
MaxLines == 2
MaxArticles == 2
MaxReport == 3

\* ------------------------------------------------------- Optional values
None == <<>>
Some(v) == <<v>>

\* Python truthiness of Optional[str] / str: neither None nor "".
TruthyStr(o) == o # None /\ o[1] # ""
\* Python truthiness of an Optional body, the body being its length.
TruthyText(o) == o # None /\ o[1] > 0
\* Python truthiness of Optional[str] for an HTML page (a fragment sequence).
TruthyHtml(o) == o # None /\ Len(o[1]) > 0

\* ------------------------------------------------------------- constants
MIN_TEXT == 100
PAYWALL_TEXT == 200
MAX_TEXT_LENGTH == 12000

PAYWALL_MARKERS ==
  << "paywall", "subscribe to read", "subscription required", "premium content",
     "register to continue", "sign in to read", "subscribers only" >>

PaywallError == "Article appears to be behind a paywall."
ExtractError == "Failed to extract article content from this URL."
NoTextError == "No article text available."

\* ------------------------------------------------------------ str.strip
RECURSIVE LStrip(_)
LStrip(s) == IF s # <<>> /\ Head(s) = " " THEN LStrip(Tail(s)) ELSE s

RECURSIVE RStrip(_)
RStrip(s) ==
  IF s # <<>> /\ s[Len(s)] = " " THEN RStrip(SubSeq(s, 1, Len(s) - 1)) ELSE s

Strip(s) == RStrip(LStrip(s))

\* ------------------------------------------------------------ str.lower
LowerFragment(f) ==
  CASE f = "PAYWALL" -> "paywall"
    [] f = "Sign In To Read" -> "sign in to read"
    [] f = "Subscribers Only" -> "subscribers only"
    [] f = "News" -> "news"
    [] OTHER -> f

Lower(h) == [k \in 1..Len(h) |-> LowerFragment(h[k])]

\* any(marker in html_lower for marker in PAYWALL_MARKERS)
AnyMarkerIn(h) ==
  \E m \in 1..Len(PAYWALL_MARKERS) : \E k \in 1..Len(h) : h[k] = PAYWALL_MARKERS[m]

\* --------------------------------------------------------------- models
ScrapedArticle(u, head, txt, pay, err) ==
  [url |-> u, headline |-> head, text |-> txt, is_paywalled |-> pay,
   scrape_error |-> err]

AnalyzedArticle(u, sc, an, err) ==
  [url |-> u, scraped |-> sc, analysis |-> an, analysis_error |-> err]

\* ------------------------------------------------- outcomes of a call
\* A call either returns a value or raises an exception with a message.
Return(v) == [exc |-> None, val |-> v]
Raise(msg) == [exc |-> Some(msg), val |-> None]

\* ---------------------------------------------- what the outside can do
\* Pages: empty, without a marker, with one in either casing, the two mixed.
HtmlPages ==
  {<<>>, <<"News">>, <<"PAYWALL">>, <<"sign in to read">>, <<"News", "Subscribers Only">>}
TextLens == {MIN_TEXT - 1, MIN_TEXT, MIN_TEXT + 1, PAYWALL_TEXT}

\* urllib.request.urlopen(...).read().decode(...): a page, or an exception.
UrlopenOutcomes == {Raise("timeout")} \cup {Return(h) : h \in HtmlPages}

\* trafilatura.fetch_url: a page or None.
FetchUrlOutcomes == {None} \cup {Some(h) : h \in HtmlPages}

\* trafilatura.bare_extraction: raises, returns None, or a dict whose "text"
\* and "title" may be missing.
BareExtractionOutcomes ==
  {Raise("trafilatura"), Return(None)}
    \cup {Return(Some([title |-> Some("t"), text |-> x])) :
            x \in {None, Some(0)} \cup {Some(n) : n \in TextLens}}

\* newspaper Article.download() + parse(): raises, or leaves title and text.
NewspaperOutcomes ==
  {Raise("newspaper")}
    \cup {Return([title |-> "t", text |-> n]) : n \in {0} \cup TextLens}

\* ------------------------------------------------------------- scraper
_detect_paywall(text, html) ==
  IF TruthyText(text) /\ text[1] < PAYWALL_TEXT
    THEN IF TruthyHtml(html) THEN AnyMarkerIn(Lower(html[1])) ELSE FALSE
    ELSE FALSE

_fetch_html(out) == IF out.exc # None THEN None ELSE Some(out.val)

\* html: the page passed in (None = let trafilatura fetch); fetched: what
\* trafilatura.fetch_url would return; out: what bare_extraction does.
_scrape_with_trafilatura(u, html, fetched, out) ==
  LET h == IF html = None THEN fetched ELSE html IN
  IF ~TruthyHtml(h) THEN None
  ELSE IF out.exc # None THEN None
  ELSE IF out.val = None \/ ~TruthyText(out.val[1].text) THEN None
  ELSE Some(ScrapedArticle(u, out.val[1].title, out.val[1].text,
                           _detect_paywall(out.val[1].text, h), None))

_scrape_with_newspaper(u, out) ==
  IF out.exc # None THEN None
  ELSE IF out.val.text = 0 THEN None
  ELSE Some(ScrapedArticle(u, Some(out.val.title), Some(out.val.text), FALSE, None))

\* Mutant: the threshold is off by one upwards.
Accepted_OffByOne(article) ==
  article # None /\ TruthyText(article[1].text) /\ article[1].text[1] > MIN_TEXT + 1

\* Mutant: the threshold is inclusive.
Accepted_AtLeast(article) ==
  article # None /\ TruthyText(article[1].text) /\ article[1].text[1] >= MIN_TEXT

\* if article and article.text and len(article.text) > 100
Accepted(article) ==
  article # None /\ TruthyText(article[1].text) /\ article[1].text[1] > MIN_TEXT

\* Mutant: the failure record is built without its scrape_error.
FailedRecord_NoError(u) == ScrapedArticle(u, None, None, FALSE, None)

PaywallRecord(u) == ScrapedArticle(u, None, None, TRUE, Some(PaywallError))
FailedRecord(u) == ScrapedArticle(u, None, None, FALSE, Some(ExtractError))

\* Mutant: the markers are looked for without lower-casing the page.
Exhausted_NoLower(u, html) ==
  IF TruthyHtml(html) /\ AnyMarkerIn(html[1])
    THEN ScrapedArticle(u, None, None, TRUE, Some(PaywallError))
    ELSE ScrapedArticle(u, None, None, FALSE, Some(ExtractError))

\* The tail of scrape_article, after every strategy was rejected.
Exhausted(u, html) ==
  IF TruthyHtml(html) /\ AnyMarkerIn(Lower(html[1]))
    THEN PaywallRecord(u)
    ELSE FailedRecord(u)

\* ------------------------------------------------------------ analyzer
Analysis(cat, comp, loc) ==
  [category |-> cat, competitor_name |-> comp, geographic_location |-> loc]

\* What client.beta.chat.completions.parse can do: raise, or return a
\* completion whose choices list is empty or holds a message whose .parsed
\* is an ArticleAnalysis or None.
ServiceAnalyses ==
  {Analysis("client", None, None), Analysis("competitor", Some("Igloo"), None)}
ServiceOutcomes ==
  {Raise("rate limit"), Raise(""), Return(<<>>), Return(<<None>>)}
    \cup {Return(<<Some(a)>>) : a \in ServiceAnalyses}

\* Mutant: the scrape_error test is forgotten.
ShortCircuit_TextOnly(article) == ~TruthyText(article.text)

\* if article.scrape_error or not article.text
ShortCircuit(article) ==
  TruthyStr(article.scrape_error) \/ ~TruthyText(article.text)

\* article.scrape_error or "No article text available."
ShortCircuitError(article) ==
  IF TruthyStr(article.scrape_error) THEN article.scrape_error[1] ELSE NoTextError

\* len(article.text[:MAX_TEXT_LENGTH])
Truncated(n) == IF n > MAX_TEXT_LENGTH THEN MAX_TEXT_LENGTH ELSE n

\* The body of the try block: the call, then completion.choices[0].message.parsed.
analyze_try(article, out) ==
  IF out.exc # None THEN out
  ELSE IF out.val = <<>> THEN Raise("list index out of range")
  ELSE Return(AnalyzedArticle(article.url, article, out.val[1], None))

\* Mutant: the except clause catches the service's own errors only.
analyze_except_Narrow(article, r) ==
  IF r.exc = Some("rate limit")
    THEN Return(AnalyzedArticle(article.url, article, None, r.exc))
    ELSE r

\* except Exception as e: ... analysis_error=str(e)
analyze_except(article, r) ==
  IF r.exc # None
    THEN Return(AnalyzedArticle(article.url, article, None, r.exc))
    ELSE r

\* analyze_article past its first return: the service is called.
analyze_call(article, out) == analyze_except(article, analyze_try(article, out))

\* ----------------------------------------------------- report generator
DEFAULT_CLIENT_competitors ==
  << "Bolttech", "Igloo", "Singlife", "FWD Insurance", "ZA Tech" >>

\* A dict (insertion-ordered) is a sequence of [key, val] entries.
DictHas(d, key) == \E n \in 1..Len(d) : d[n].key = key
DictGet(d, key, default) ==
  IF DictHas(d, key) THEN d[CHOOSE n \in 1..Len(d) : d[n].key = key].val ELSE default

\* defaultdict(list)[key].append(v)
DictAppend(d, key, v) ==
  IF DictHas(d, key)
    THEN [n \in 1..Len(d) |->
            IF d[n].key = key THEN [d[n] EXCEPT !.val = Append(@, v)] ELSE d[n]]
    ELSE Append(d, [key |-> key, val |-> <<v>>])

\* Mutant: the default is applied to None only, not to the empty string.
CompetitorKey_NoneOnly(a) ==
  IF a.competitor_name # None THEN a.competitor_name[1] ELSE "Other"

\* art.analysis.competitor_name or "Other"
CompetitorKey(a) ==
  IF TruthyStr(a.competitor_name) THEN a.competitor_name[1] ELSE "Other"

\* art.analysis.geographic_location or "Global"
LocationKey(a) ==
  IF TruthyStr(a.geographic_location) THEN a.geographic_location[1] ELSE "Global"

\* if art.analysis_error or not art.analysis
IsFailed(art) == TruthyStr(art.analysis_error) \/ art.analysis = None

InSeq(x, sq) == \E n \in 1..Len(sq) : sq[n] = x

Para(style, text) == [style |-> style, text |-> text]
Entry(n) == [style |-> "entry", art |-> n]

\* for art in arts: _add_article_entry(doc, art)
Entries(arts) == [n \in 1..Len(arts) |-> Entry(arts[n])]

RECURSIVE Flatten(_)
Flatten(ss) == IF ss = <<>> THEN <<>> ELSE Head(ss) \o Flatten(Tail(ss))

NoCoverage == <<Para("no_coverage", "No media coverage identified this period.")>>

\* Mutant: a configured competitor without coverage gets no subsection.
ConfiguredCompetitors_SkipEmpty(cs, ca) ==
  Flatten([n \in 1..Len(cs) |->
    LET comp_arts == DictGet(ca, cs[n], <<>>) IN
    IF comp_arts # <<>>
      THEN <<Para("subsection", cs[n])>> \o Entries(comp_arts)
      ELSE <<>>])

\* Section 2, the configured competitors, in the configured order.
ConfiguredCompetitors(cs, ca) ==
  Flatten([n \in 1..Len(cs) |->
    LET comp_arts == DictGet(ca, cs[n], <<>>) IN
    <<Para("subsection", cs[n])>>
      \o (IF comp_arts # <<>> THEN Entries(comp_arts) ELSE NoCoverage)])

\* Section 2, the competitors not in the predefined list.
ExtraCompetitors(cs, ca) ==
  Flatten([n \in 1..Len(ca) |->
    IF ~InSeq(ca[n].key, cs)
      THEN <<Para("subsection", ca[n].key)>> \o Entries(ca[n].val)
      ELSE <<>>])

IndustrySection(ia) ==
  IF ia # <<>>
    THEN Flatten([n \in 1..Len(ia) |->
           <<Para("subsection", ia[n].key)>> \o Entries(ia[n].val)])
    ELSE NoCoverage

NotesSection(fa) ==
  IF fa # <<>>
    THEN <<Para("section", "Notes"), [style |-> "notes_count", count |-> Len(fa)]>>
           \o [n \in 1..Len(fa) |-> [style |-> "note", art |-> fa[n]]]
    ELSE <<>>

\* Everything generate_report adds to the document after the grouping loop.
Render(cs, cl, ca, ia, fa) ==
  <<Para("title", "Media Monitoring"), Para("date", "Week of")>>
    \o <<Para("section", "1. Coverage")>>
    \o (IF cl # <<>> THEN Entries(cl) ELSE NoCoverage)
    \o <<Para("section", "2. Competitor Coverage")>>
    \o ConfiguredCompetitors(cs, ca)
    \o ExtraCompetitors(cs, ca)
    \o <<Para("section", "3. Industry News")>>
    \o IndustrySection(ia)
    \o NotesSection(fa)

\* ================================================================ state
VARIABLES
  pc,          \* where the request is
  lines,       \* main.generate: the submitted form field, split into lines
  url_list,    \* main.generate: url_list, the batch given to scrape_articles
  i,           \* scrape_articles: position of the loop in urls
  url,         \* scrape_article: url
  html,        \* scrape_article: html
  invoked,     \* scrape_article: the strategies called so far for this url
  cand,        \* scrape_article: what each of them returned
  ret,         \* scrape_article: the record it returns
  scraped,     \* scrape_articles: results; then analyze_articles: articles
  j,           \* analyze_articles: position of the loop (i + 1)
  analyzed,    \* analyze_articles: results; then generate_report: articles
  log,         \* the service calls and the sleeps of analyze_articles, in order
  competitors, \* generate_report: config.competitors
  k,           \* generate_report: position of the grouping loop
  client_articles, competitor_articles, industry_articles, failed_articles,
  doc          \* generate_report: the paragraphs of the document

scrapeVars == <<url_list, i, url, html, invoked, cand, ret, scraped>>
analyzeVars == <<j, analyzed, log>>
reportVars ==
  <<k, client_articles, competitor_articles, industry_articles, failed_articles, doc>>
vars == <<pc, lines, competitors, scrapeVars, analyzeVars, reportVars>>

SeqsUpTo(S, n) == UNION {[1..m -> S] : m \in 0..n}

\* Lines a user can submit: blank, a URL, another URL with spaces around it.
LineChoices == {<<" ">>, <<"a">>, <<" ", "b", " ">>}

Fresh ==
  /\ url_list = <<>> /\ i = 1 /\ url = <<>> /\ html = None
  /\ invoked = <<>> /\ cand = <<>> /\ ret = None /\ scraped = <<>>
  /\ j = 1 /\ analyzed = <<>> /\ log = <<>>
  /\ k = 1 /\ client_articles = <<>> /\ competitor_articles = <<>>
  /\ industry_articles = <<>> /\ failed_articles = <<>> /\ doc = <<>>

Init ==
  /\ pc = "generate"
  /\ lines \in SeqsUpTo(LineChoices, MaxLines)
  /\ competitors = DEFAULT_CLIENT_competitors
  /\ Fresh

\* ------------------------------------------------------- main.generate
Generate ==
  /\ pc = "generate"
  /\ url_list' = SelectSeq([n \in 1..Len(lines) |-> Strip(lines[n])], LAMBDA u : u # <<>>)
  /\ pc' = IF url_list' = <<>> THEN "no_urls" ELSE "scrape_loop"
  /\ UNCHANGED <<lines, competitors, i, url, html, invoked, cand, ret, scraped,
                 analyzeVars, reportVars>>

\* ------------------------------------------------------ scrape_articles
\* for url in urls: skip a blank one, else enter scrape_article(url).
ScrapeLoop ==
  /\ pc = "scrape_loop"
  /\ IF i > Len(url_list)
       THEN pc' = "analyze_loop" /\ UNCHANGED <<i, url>>
       ELSE IF Strip(url_list[i]) = <<>>
         THEN pc' = "scrape_loop" /\ i' = i + 1 /\ UNCHANGED url
         ELSE pc' = "fetch" /\ url' = Strip(url_list[i]) /\ UNCHANGED i
  /\ UNCHANGED <<lines, competitors, url_list, html, invoked, cand, ret, scraped,
                 analyzeVars, reportVars>>

\* html = _fetch_html(url)
FetchHtml ==
  /\ pc = "fetch"
  /\ \E out \in UrlopenOutcomes : html' = _fetch_html(out)
  /\ pc' = "trafilatura_html"
  /\ UNCHANGED <<lines, competitors, url_list, i, url, invoked, cand, ret, scraped,
                 analyzeVars, reportVars>>

\* One strategy was called and returned article: return it or go on.
Tried(name, article, next) ==
  /\ invoked' = Append(invoked, name)
  /\ cand' = Append(cand, article)
  /\ IF Accepted(article)
       THEN ret' = Some(article[1]) /\ pc' = "scrape_return"
       ELSE ret' = ret /\ pc' = next
  /\ UNCHANGED <<lines, competitors, url_list, i, url, html, scraped,
                 analyzeVars, reportVars>>

\* article = _scrape_with_trafilatura(url, html)
TrafilaturaHtml ==
  /\ pc = "trafilatura_html"
  /\ \E fetched \in FetchUrlOutcomes, out \in BareExtractionOutcomes :
       Tried("trafilatura(html)", _scrape_with_trafilatura(url, html, fetched, out),
             "trafilatura_fetch")

\* article = _scrape_with_trafilatura(url, None)
TrafilaturaFetch ==
  /\ pc = "trafilatura_fetch"
  /\ \E fetched \in FetchUrlOutcomes, out \in BareExtractionOutcomes :
       Tried("trafilatura(None)", _scrape_with_trafilatura(url, None, fetched, out),
             "newspaper")

\* article = _scrape_with_newspaper(url, html)
Newspaper ==
  /\ pc = "newspaper"
  /\ \E out \in NewspaperOutcomes :
       Tried("newspaper", _scrape_with_newspaper(url, out), "exhausted")

\* Everything failed: check paywall.
CheckPaywall ==
  /\ pc = "exhausted"
  /\ ret' = Some(Exhausted(url, html))
  /\ pc' = "scrape_return"
  /\ UNCHANGED <<lines, competitors, url_list, i, url, html, invoked, cand, scraped,
                 analyzeVars, reportVars>>

\* results.append(article), and the locals of scrape_article are gone.
AppendScraped ==
  /\ pc = "scrape_return"
  /\ scraped' = Append(scraped, ret[1])
  /\ i' = i + 1
  /\ url' = <<>> /\ html' = None /\ invoked' = <<>> /\ cand' = <<>> /\ ret' = None
  /\ pc' = "scrape_loop"
  /\ UNCHANGED <<lines, competitors, url_list, analyzeVars, reportVars>>

\* ----------------------------------------------------- analyze_articles
\* Loop head, and analyze_article up to its first return.
AnalyzeLoop ==
  /\ pc = "analyze_loop"
  /\ IF j > Len(scraped)
       THEN pc' = "analyzed" /\ UNCHANGED analyzed
       ELSE IF ShortCircuit(scraped[j])
         THEN /\ analyzed' = Append(analyzed,
                   AnalyzedArticle(scraped[j].url, scraped[j], None,
                                   Some(ShortCircuitError(scraped[j]))))
              /\ pc' = "rate_limit"
         ELSE pc' = "service" /\ UNCHANGED analyzed
  /\ UNCHANGED <<lines, competitors, scrapeVars, j, log, reportVars>>

\* The request to the classification service, and what comes of it.
Service ==
  /\ pc = "service"
  /\ log' = Append(log, [ev |-> "call", item |-> j,
                         text |-> Truncated(scraped[j].text[1])])
  /\ \E out \in ServiceOutcomes :
       LET r == analyze_call(scraped[j], out) IN
       IF r.exc # None
         THEN pc' = "raised" /\ UNCHANGED analyzed
         ELSE pc' = "rate_limit" /\ analyzed' = Append(analyzed, r.val)
  /\ UNCHANGED <<lines, competitors, scrapeVars, j, reportVars>>

\* Mutant: the comparison is with len(articles).
SleepAfter_EveryItem(item, n) == item - 1 < n

\* if i < len(articles) - 1 (i counts from 0, item from 1)
SleepAfter(item, n) == item - 1 < n - 1

RateLimit ==
  /\ pc = "rate_limit"
  /\ log' = IF SleepAfter(j, Len(scraped))
              THEN Append(log, [ev |-> "sleep", item |-> j, text |-> 0])
              ELSE log
  /\ j' = j + 1
  /\ pc' = "analyze_loop"
  /\ UNCHANGED <<lines, competitors, scrapeVars, analyzed, reportVars>>

\* ------------------------------------------------------ generate_report
\* One turn of "for art in articles" (the grouping loop).
Classify ==
  /\ pc = "analyzed"
  /\ k <= Len(analyzed)
  /\ LET art == analyzed[k] IN
     IF IsFailed(art)
       THEN /\ failed_articles' = Append(failed_articles, k)
            /\ UNCHANGED <<client_articles, competitor_articles, industry_articles>>
       ELSE LET a == art.analysis[1] IN
         IF a.category = "client"
           THEN /\ client_articles' = Append(client_articles, k)
                /\ UNCHANGED <<competitor_articles, industry_articles, failed_articles>>
         ELSE IF a.category = "competitor"
           THEN /\ competitor_articles' = DictAppend(competitor_articles, CompetitorKey(a), k)
                /\ UNCHANGED <<client_articles, industry_articles, failed_articles>>
         ELSE /\ industry_articles' = DictAppend(industry_articles, LocationKey(a), k)
              /\ UNCHANGED <<client_articles, competitor_articles, failed_articles>>
  /\ k' = k + 1
  /\ UNCHANGED <<pc, lines, competitors, scrapeVars, analyzeVars, doc>>

\* The rest of generate_report: the document.
WriteReport ==
  /\ pc = "analyzed"
  /\ k > Len(analyzed)
  /\ doc' = Render(competitors, client_articles, competitor_articles,
                   industry_articles, failed_articles)
  /\ pc' = "done"
  /\ UNCHANGED <<lines, competitors, scrapeVars, analyzeVars, k, client_articles,
                 competitor_articles, industry_articles, failed_articles>>

\* -------------------------------------------------------- specifications
\* One request to main.generate.
Next ==
  \/ Generate
  \/ ScrapeLoop \/ FetchHtml \/ TrafilaturaHtml \/ TrafilaturaFetch \/ Newspaper
  \/ CheckPaywall \/ AppendScraped
  \/ AnalyzeLoop \/ Service \/ RateLimit
  \/ Classify \/ WriteReport

Spec == Init /\ [][Next]_vars

\* analyze_articles called on any list of ScrapedArticle values.
ScrapedChoices ==
  {ScrapedArticle(<<"a">>, None, txt, FALSE, err) :
     txt \in {None, Some(0), Some(MIN_TEXT + 1), Some(MAX_TEXT_LENGTH + 1)},
     err \in {None, Some(""), Some(ExtractError)}}

InitAnalyze ==
  /\ pc = "analyze_loop"
  /\ lines = <<>>
  /\ competitors = DEFAULT_CLIENT_competitors
  /\ url_list = <<>> /\ i = 1 /\ url = <<>> /\ html = None
  /\ invoked = <<>> /\ cand = <<>> /\ ret = None
  /\ scraped \in SeqsUpTo(ScrapedChoices, MaxArticles)
  /\ j = 1 /\ analyzed = <<>> /\ log = <<>>
  /\ k = 1 /\ client_articles = <<>> /\ competitor_articles = <<>>
  /\ industry_articles = <<>> /\ failed_articles = <<>> /\ doc = <<>>

NextAnalyze == AnalyzeLoop \/ Service \/ RateLimit

SpecAnalyze == InitAnalyze /\ [][NextAnalyze]_vars

\* generate_report called on any list of AnalyzedArticle values and any config.
OkScraped == ScrapedArticle(<<"a">>, None, Some(MIN_TEXT + 1), FALSE, None)

ReportArticles ==
  {AnalyzedArticle(<<"a">>, FailedRecord(<<"a">>), None, Some(ExtractError)),
   AnalyzedArticle(<<"a">>, OkScraped, None, None),
   AnalyzedArticle(<<"a">>, OkScraped, Some(Analysis("client", Some("Acme"), None)), None)}
    \cup {AnalyzedArticle(<<"a">>, OkScraped, Some(Analysis("competitor", c, None)), None) :
            c \in {None, Some(""), Some("Bolttech"), Some("Igloo"), Some("Acme"), Some("Zed")}}
    \cup {AnalyzedArticle(<<"a">>, OkScraped, Some(Analysis("industry", None, loc)), None) :
            loc \in {None, Some("Singapore")}}

ReportConfigs ==
  {<<"Bolttech", "Igloo">>, <<"Igloo", "Bolttech">>, DEFAULT_CLIENT_competitors}

InitReport ==
  /\ pc = "analyzed"
  /\ lines = <<>>
  /\ competitors \in ReportConfigs
  /\ url_list = <<>> /\ i = 1 /\ url = <<>> /\ html = None
  /\ invoked = <<>> /\ cand = <<>> /\ ret = None /\ scraped = <<>>
  /\ j = 1 /\ analyzed \in SeqsUpTo(ReportArticles, MaxReport) /\ log = <<>>
  /\ k = 1 /\ client_articles = <<>> /\ competitor_articles = <<>>
  /\ industry_articles = <<>> /\ failed_articles = <<>> /\ doc = <<>>

NextReport == Classify \/ WriteReport

SpecReport == InitReport /\ [][NextReport]_vars

\* ================================================================ claims
\* A field of a record "is set" when it is not None.

\* C1: every ClassifiedArticle returned by analyze_article has exactly one
\* of analysis and analysis_error set, whatever the service did (parsed
\* result, no parsed result, exception with any message).
C1_ExactlyOneOfAnalysisAndError ==
  \A n \in 1..Len(analyzed) :
    (analyzed[n].analysis # None) # (analyzed[n].analysis_error # None)

\* C2: an article that carries a (non-empty) scrape_error, or whose text is
\* empty or absent, never causes a call to the classification service, and
\* its result has analysis_error equal to that scrape_error, or to
\* "No article text available." when it carries none.
C2_ShortCircuitNoCall ==
  \A n \in 1..Len(scraped) :
    LET s == scraped[n]
        hasError == s.scrape_error # None /\ s.scrape_error[1] # ""
        noBody == s.text = None \/ s.text[1] = 0
    IN (hasError \/ noBody) =>
         /\ \A e \in 1..Len(log) : ~(log[e].ev = "call" /\ log[e].item = n)
         /\ n <= Len(analyzed) =>
              /\ analyzed[n].analysis = None
              /\ analyzed[n].analysis_error =
                   (IF hasError THEN s.scrape_error
                                ELSE Some("No article text available."))

C2_Witness ==
  /\ pc = "analyzed"
  /\ Len(scraped) = 2
  /\ scraped[1].scrape_error = Some(ExtractError) /\ scraped[1].text = Some(MIN_TEXT + 1)
  /\ scraped[2].scrape_error = None /\ scraped[2].text = Some(0)
  /\ analyzed[1].analysis_error = Some(ExtractError)
  /\ analyzed[2].analysis_error = Some(NoTextError)
  /\ \A e \in 1..Len(log) : log[e].ev = "sleep"

\* C3: every record returned by scrape_article has exactly one of text and
\* scrape_error set.
C3_OneOf(r) == (r.text # None) # (r.scrape_error # None)

C3_ExactlyOneOfTextAndError ==
  /\ \A n \in 1..Len(scraped) : C3_OneOf(scraped[n])
  /\ ret # None => C3_OneOf(ret[1])

C3_Witness ==
  /\ Len(scraped) = 2
  /\ scraped[1].text # None /\ scraped[1].scrape_error = None
  /\ scraped[2].text = None /\ scraped[2].scrape_error # None

\* C4 as stated: when the first call, trafilatura on the fetched HTML,
\* returns a body of at least 100 characters, no other strategy is called.
C4_AtLeast100StopsCascade ==
  (/\ html # None /\ html[1] # <<>>
   /\ cand # <<>> /\ cand[1] # None /\ cand[1][1].text[1] >= 100)
     => Len(invoked) = 1

\* C4 amended: ... returns a body of more than 100 characters ...
C4_MoreThan100StopsCascade ==
  (/\ cand # <<>> /\ cand[1] # None /\ cand[1][1].text[1] > 100)
     => /\ Len(invoked) = 1
        /\ pc = "scrape_return"

C4_Witness ==
  /\ pc = "scrape_return"
  /\ html # None /\ html[1] # <<>>
  /\ invoked = <<"trafilatura(html)">>
  /\ cand[1] # None /\ cand[1][1].text = Some(101)
  /\ ret = cand[1]

\* C5: scrape_article returns the candidate of the first strategy, in the
\* order trafilatura on the fetched HTML, trafilatura with its own fetch,
\* newspaper, whose text is longer than 100 characters; when trafilatura
\* fails twice and newspaper yields 101 characters the result is
\* newspaper's candidate; when no strategy yields more than 100 characters
\* the result is an extraction failure without text.
C5_Long(c) == c # None /\ c[1].text # None /\ c[1].text[1] > 100

C5_Order == <<"trafilatura(html)", "trafilatura(None)", "newspaper">>

C5_FirstLongCandidateWins ==
  /\ Len(invoked) = Len(cand) /\ Len(invoked) <= 3
  /\ \A n \in 1..Len(invoked) : invoked[n] = C5_Order[n]
  /\ \A n \in 1..Len(cand) : n < Len(cand) => ~C5_Long(cand[n])
  /\ pc = "scrape_return" =>
       IF \E n \in 1..Len(cand) : C5_Long(cand[n])
         THEN ret = cand[Len(cand)] /\ C5_Long(cand[Len(cand)])
         ELSE /\ Len(cand) = 3
              /\ ret[1].text = None
              /\ ret[1].scrape_error # None
  /\ (pc \in {"newspaper", "exhausted"}) => \A n \in 1..Len(cand) : ~C5_Long(cand[n])

C5_Witness ==
  /\ pc = "scrape_return"
  /\ Len(cand) = 3
  /\ cand[1] = None /\ cand[2] = None
  /\ cand[3] # None /\ cand[3][1].text = Some(101)
  /\ ret = cand[3]

\* C6: when all strategies are exhausted the record depends on the fetched
\* HTML alone: is_paywalled with the paywall message when the HTML, in any
\* casing, contains a marker; otherwise (also without HTML) not paywalled
\* with the extraction-failure message.
C6_MarkerAnyCase(h) ==
  \E n \in 1..Len(h) :
    h[n] \in {"paywall", "PAYWALL", "sign in to read", "Sign In To Read",
              "subscribers only", "Subscribers Only", "subscribe to read",
              "subscription required", "premium content", "register to continue"}

C6_ExhaustedDecidedByHtml ==
  (pc = "scrape_return" /\ Len(cand) = 3 /\ \A n \in 1..3 : ~C5_Long(cand[n]))
    => IF html # None /\ C6_MarkerAnyCase(html[1])
         THEN /\ ret[1].is_paywalled
              /\ ret[1].scrape_error = Some("Article appears to be behind a paywall.")
         ELSE /\ ~ret[1].is_paywalled
              /\ ret[1].scrape_error =
                   Some("Failed to extract article content from this URL.")

C6_Witness ==
  /\ pc = "scrape_return" /\ Len(cand) = 3
  /\ html = Some(<<"News", "Subscribers Only">>)
  /\ cand[3] # None /\ cand[3][1].text = Some(100)
  /\ ret[1].is_paywalled /\ ret[1].scrape_error = Some(PaywallError)

\* --------------------------------------------- reading the competitor section
IndexOf(ps, p) == CHOOSE n \in 1..Len(ps) : ps[n] = p

\* The paragraphs of "2. Competitor Coverage".
Section2 ==
  SubSeq(doc, IndexOf(doc, Para("section", "2. Competitor Coverage")) + 1,
              IndexOf(doc, Para("section", "3. Industry News")) - 1)

\* The bucket keys: the subsection headings, in document order.
RECURSIVE Headings(_)
Headings(ps) ==
  IF ps = <<>> THEN <<>>
  ELSE IF Head(ps).style = "subsection"
    THEN <<Head(ps).text>> \o Headings(Tail(ps))
    ELSE Headings(Tail(ps))

\* The articles listed under the heading key, in document order.
RECURSIVE Under(_, _, _)
Under(ps, key, inside) ==
  IF ps = <<>> THEN <<>>
  ELSE IF Head(ps).style = "subsection"
    THEN Under(Tail(ps), key, Head(ps).text = key)
    ELSE IF Head(ps).style = "entry" /\ inside
      THEN <<Head(ps).art>> \o Under(Tail(ps), key, inside)
      ELSE Under(Tail(ps), key, inside)

\* An article the classification put in category "competitor".
IsCompetitorArticle(n) ==
  /\ analyzed[n].analysis # None
  /\ analyzed[n].analysis_error = None
  /\ analyzed[n].analysis[1].category = "competitor"

NameAbsent(n) ==
  LET c == analyzed[n].analysis[1].competitor_name IN c = None \/ c = Some("")

\* The competitor an article is about: the name the classification
\* returned, "Other" when it returned none.
NameOf(n) ==
  IF NameAbsent(n) THEN "Other" ELSE analyzed[n].analysis[1].competitor_name[1]

\* The names of analyzed[n..] that are neither configured nor in seen, in
\* order of first appearance.
RECURSIVE FirstSeen(_, _)
FirstSeen(n, seen) ==
  IF n > Len(analyzed) THEN <<>>
  ELSE IF IsCompetitorArticle(n) /\ ~InSeq(NameOf(n), competitors) /\ NameOf(n) \notin seen
    THEN <<NameOf(n)>> \o FirstSeen(n + 1, seen \cup {NameOf(n)})
    ELSE FirstSeen(n + 1, seen)

\* The competitor articles about name, in encounter order.
ArticlesAbout(name) ==
  SelectSeq([n \in 1..Len(analyzed) |-> n],
            LAMBDA n : IsCompetitorArticle(n) /\ NameOf(n) = name)

\* C7: the bucket keys of the competitor section are the configured
\* competitors in the configured order, each present even when empty, then
\* the names from the classification that are not configured, in order of
\* first appearance (an article classified "competitor" without a name
\* counts under "Other"); inside a bucket articles keep encounter order.
C7_BucketKeysAndOrder ==
  pc = "done" =>
    /\ Headings(Section2) = competitors \o FirstSeen(1, {})
    /\ \A h \in 1..Len(Headings(Section2)) :
         Under(Section2, Headings(Section2)[h], FALSE) = ArticlesAbout(Headings(Section2)[h])

C7_Witness ==
  /\ pc = "done"
  /\ competitors = <<"Igloo", "Bolttech">>
  /\ Headings(Section2) = <<"Igloo", "Bolttech", "Zed", "Acme">>
  /\ Under(Section2, "Igloo", FALSE) = <<>>
  /\ Under(Section2, "Bolttech", FALSE) = <<>>
  /\ Under(Section2, "Zed", FALSE) = <<1, 3>>
  /\ Under(Section2, "Acme", FALSE) = <<2>>

\* C8 as stated: a "competitor" article is listed in the bucket keyed by
\* its competitor_name, and in the bucket "Other" when the name is absent
\* or matches no configured competitor.
C8_UnmatchedGoesToOther ==
  pc = "done" =>
    \A n \in 1..Len(analyzed) : IsCompetitorArticle(n) =>
      InSeq(n, Under(Section2,
                     IF NameAbsent(n)
                          \/ ~InSeq(analyzed[n].analysis[1].competitor_name[1], competitors)
                       THEN "Other"
                       ELSE analyzed[n].analysis[1].competitor_name[1],
                     FALSE))

\* C8 amended: ... in the bucket "Other" only when the name is absent (None
\* or empty); a name that matches no configured competitor keys a bucket
\* of its own.
C8_AbsentGoesToOther ==
  /\ \A n \in 1..Len(analyzed) : (n < k /\ IsCompetitorArticle(n)) =>
       InSeq(n, DictGet(competitor_articles,
                        IF NameAbsent(n) THEN "Other"
                        ELSE analyzed[n].analysis[1].competitor_name[1], <<>>))
  /\ pc = "done" =>
       \A n \in 1..Len(analyzed) : IsCompetitorArticle(n) =>
         \A h \in 1..Len(Headings(Section2)) :
           InSeq(n, Under(Section2, Headings(Section2)[h], FALSE))
             <=> Headings(Section2)[h] =
                   (IF NameAbsent(n) THEN "Other"
                    ELSE analyzed[n].analysis[1].competitor_name[1])

C8_Witness ==
  /\ pc = "done"
  /\ Len(analyzed) = 3
  /\ IsCompetitorArticle(1) /\ analyzed[1].analysis[1].competitor_name = None
  /\ IsCompetitorArticle(2) /\ analyzed[2].analysis[1].competitor_name = Some("Acme")
  /\ IsCompetitorArticle(3) /\ analyzed[3].analysis[1].competitor_name = Some("Igloo")
  /\ Under(Section2, "Other", FALSE) = <<1>>
  /\ Under(Section2, "Acme", FALSE) = <<2>>
  /\ Under(Section2, "Igloo", FALSE) = <<3>>

\* C9: for a batch of non-blank URLs and any mix of fetch, extraction and
\* classification failures, scrape_articles then analyze_articles end
\* without an exception escaping and give one result per URL, in input
\* order, the n-th result carrying the n-th URL.
C9_OneResultPerUrlInOrder ==
  /\ pc # "raised"
  /\ \A n \in 1..Len(url_list) : url_list[n] # <<>> /\ Strip(url_list[n]) = url_list[n]
  /\ Len(scraped) <= Len(url_list) /\ Len(analyzed) <= Len(scraped)
  /\ \A n \in 1..Len(scraped) : scraped[n].url = url_list[n]
  /\ \A n \in 1..Len(analyzed) :
       analyzed[n].url = url_list[n] /\ analyzed[n].scraped = scraped[n]
  /\ pc \in {"analyze_loop", "service", "rate_limit", "analyzed", "done"} =>
       Len(scraped) = Len(url_list)
  /\ pc \in {"analyzed", "done"} => Len(analyzed) = Len(url_list)

C9_Witness ==
  /\ pc = "analyzed"
  /\ url_list = << <<"b">>, <<"a">> >>
  /\ scraped[1].scrape_error # None
  /\ Len(analyzed) = 2
  /\ analyzed[1].analysis_error = Some(PaywallError)
  /\ analyzed[2].analysis_error = Some("list index out of range")

\* C10: in analyze_articles a sleep happens between every two consecutive
\* calls of the classification service, and no sleep happens after the
\* last article is processed.
C10_SleepBetweenCallsNotAfterLast ==
  /\ \A a, b \in 1..Len(log) :
       (a < b /\ log[a].ev = "call" /\ log[b].ev = "call") =>
         \E c \in (a + 1)..(b - 1) : log[c].ev = "sleep"
  /\ \A e \in 1..Len(log) : log[e].ev = "sleep" => log[e].item < Len(scraped)
  /\ pc = "analyzed" =>
       \A n \in 1..Len(scraped) :
         n < Len(scraped) =>
           \E e \in 1..Len(log) : log[e].ev = "sleep" /\ log[e].item = n

C10_Witness ==
  /\ pc = "analyzed"
  /\ Len(log) = 3
  /\ log[1].ev = "call" /\ log[1].item = 1
  /\ log[2].ev = "sleep" /\ log[2].item = 1
  /\ log[3].ev = "call" /\ log[3].item = 2

====
